---- MODULE Spec2Model ----
(***************************************************************************)
(* State-machine model of QRService (src/src/App.tsx): the multi-code     *)
(* recognition pipeline recognizeMultipleQRCodes, the single-image         *)
(* recognizer recognizeImage, the payload classifier and the batch call    *)
(* recognizeImages; and of the pages that call the service                 *)
(* (src/src/pages/Home.tsx, src/src/pages/BatchRecognition.tsx).           *)
(*                                                                         *)
(* Execution model.  The service runs on the browser's single-threaded     *)
(* event loop.  jsQR(...) is an ordinary synchronous call (its return      *)
(* value is used directly), so a decode runs to completion and only moves  *)
(* the wall clock.  `await` of a promise that is already resolved, or      *)
(* that is resolved by other promise reactions, continues in the same      *)
(* microtask checkpoint; a timer callback (setTimeout) and an image        *)
(* load/error event are tasks, which run only when the call stack and the  *)
(* microtask queue are empty.                                              *)
(*                                                                         *)
(* Units.  Time is in milliseconds.  Coordinates are in half pixels, so    *)
(* that Math.round has something to round: a value v stands for v/2 px.    *)
(***************************************************************************)
EXTENDS Integers, Sequences, FiniteSets, TLC

VARIABLES
    now,            \* Date.now(), relative to the start of the scenario
    isInitialized,  \* QRService.isInitialized
    img,            \* the scenario: image source, its codes, decode cost
    callNo,         \* which call on the shared qrService instance this is
    pc,             \* position of the running call
    startTime,      \* local startTime of the call
    results,        \* local results of performOptimizedRecognition
    foundPositions, \* local foundPositions of performOptimizedRecognition
    stageResults,   \* local results of the stage in progress
    scanPromises,   \* local scanPromises of optimizedSlidingWindow
    idx,            \* strategy / region / window index within the stage
    timer,          \* the setTimeout of the call: state and due time
    ret,            \* what the call returned (or threw)
    hits,           \* history: payloads jsQR returned during this call
    accAtDeadline,  \* history: results when the timer became due mid-run
    deadlineHit,    \* history: the timer became due before the call ended
    discarded,      \* history: addUniqueResults has discarded a candidate
    ingest,         \* history: outcome of loading the image source
    qrFast,         \* recognizeImage: promise of recognizeWithQrScannerFast
    jsFast,         \* recognizeImage: promise of recognizeWithJsQRFast
    firstFast,      \* history: the fast decoder that first returned a payload
    tried,          \* history: the strategies attempted, with their outcomes
    input,          \* the text handed to the payload classifier
    out,            \* what the payload classifier returned for input
    imageCount,     \* recognizeImages: imageDataList.length
    batchStart,     \* recognizeImages: the loop variable i
    inFlight,       \* recognizeImages: images whose recognizeImage is pending
    batchResults,   \* recognizeImages: the local array results
    started,        \* history: the images started, in the order of starting
    checkElapsed,   \* history: elapsed time at the test after each group
    progress,       \* history: the calls of onProgress, in order
    page,           \* the page that handled an image, if one has
    fallback,       \* the page's call of recognizeImage and its result
    surfaced,       \* what the page stored and showed for the image
    selectedFiles,  \* batch page: number of selected files (files 0..n-1)
    pageResults,    \* batch page: the state `results`
    isProcessing,   \* batch page: the state isProcessing
    isPaused,       \* batch page: the state isPaused
    currentIndex,   \* batch page: the state currentIndex
    processingStats,\* batch page: the state processingStats
    loops,          \* batch page: the batch loops started, with their locals
    retry,          \* batch page: the retryResult call waiting for its image
    storeResults,   \* the history of the store, filled by addResult
    begun,          \* history: the processImage calls, in order
    written,        \* history: the last write of a result into `results`
    idClock         \* what Date.now() contributes to the next result id

mvars == <<now, isInitialized, img, callNo, pc, startTime, results,
           foundPositions, stageResults, scanPromises, idx, timer, ret,
           hits, accAtDeadline, deadlineHit, discarded, ingest>>

\* the variables only recognizeImage uses
fastVars == <<qrFast, jsFast, firstFast, tried>>

\* the variables of the payload classifier
clsVars == <<input, out>>

\* the variables only recognizeImages uses
batchVars == <<imageCount, batchStart, inFlight, batchResults, started,
               checkElapsed, progress>>

\* the variables of the pages that call the service
pageVars == <<page, fallback, surfaced>>

\* the variables of the batch page
uiVars == <<selectedFiles, pageResults, isProcessing, isPaused, currentIndex,
            processingStats, loops, retry, storeResults, begun, written,
            idClock>>

\* the variables of all pages
viewVars == <<pageVars, uiVars>>

\* the variables of the operations outside the two recognizers
otherVars == <<clsVars, batchVars, viewVars>>

vars == <<mvars, fastVars, otherVars>>

----------------------------------------------------------------------------
(* Program constants *)

TIMEOUT_MS == 2000
GridGateMs == 1000
SlideGateMs == 1500
SlideBatch == 6

(* Bounds of the model *)

MaxCalls == 2
MaxLoadMs == 2500

\* how long the event loop may sit idle in one step
IdleMs == {500}

\* canvas.width = canvas.height, in pixels (a multiple of 3 and of 25, so
\* that width/3, min*0.4 and windowSize*0.6 are whole pixels)
ImgSizePx == 150

\* time one jsQR call takes, fixed per scenario
DecodeMs == {50, 120, 150, 400, 3000}

\* top-left corners of the scenario codes, in half pixels: (10.5, 10) px in
\* grid cell 0, (110, 60) px in cell 5, (0, 72) px in cell 3; every code
\* also lies inside at least one sliding window
O1 == <<21, 20>>
O2 == <<220, 120>>
O3 == <<0, 144>>

\* sub-pixel variation of the corner jsQR reports, in half pixels: a corner
\* on a half pixel is reported there or half a pixel to the left, which
\* Math.round takes to different integers
Jitter(x) == IF x % 2 = 1 THEN {0, -1} ELSE {0}

\* a code of 20 x 20 pixels with payload p at corner o
Code(p, o) == [data |-> p, x |-> o[1], y |-> o[2], size |-> 40]

\* payloads of the scenario codes; a JavaScript string is modelled as the
\* sequence of its characters
PayloadA == <<"A">>
PayloadB == <<"B">>
PayloadC == <<"C">>
\* a payload with the shape of a position key: "0_72"
PayloadKey == <<"0", "_", "7", "2">>
\* the decoded text of a code that holds no characters: ""
PayloadEmpty == <<>>

\* the codes of the scenario images: none; one; two with the same payload;
\* three with distinct payloads in distinct grid cells; the same with one
\* payload that has the shape of a position key; one code with empty text
CodeSets ==
    { {},
      {Code(PayloadA, O1)},
      {Code(PayloadA, O1), Code(PayloadA, O2)},
      {Code(PayloadA, O1), Code(PayloadB, O2), Code(PayloadC, O3)},
      {Code(PayloadKey, O1), Code(PayloadB, O2), Code(PayloadC, O3)},
      {Code(PayloadEmpty, O1)} }

Scenarios ==
    [src : {"canvas", "string"}, codes : CodeSets, decodeMs : DecodeMs]

----------------------------------------------------------------------------
(* Strings *)

DigitChar == <<"0", "1", "2", "3", "4", "5", "6", "7", "8", "9">>

RECURSIVE Digits(_)
Digits(n) ==
    IF n < 10 THEN <<DigitChar[n + 1]>>
    ELSE Digits(n \div 10) \o <<DigitChar[(n % 10) + 1]>>

\* `${n}` for an integer n
NumberToString(n) == IF n < 0 THEN <<"-">> \o Digits(0 - n) ELSE Digits(n)

StartsWith(s, p) == Len(s) >= Len(p) /\ SubSeq(s, 1, Len(p)) = p

IsDigit(c) == c \in {"0", "1", "2", "3", "4", "5", "6", "7", "8", "9"}
\* \s, over the characters of the model
IsSpace(c) == c \in {" ", "\t", "\n", "\r"}
\* what `.` does not match
IsLineTerminator(c) == c \in {"\n", "\r"}
Dot(c) == ~IsLineTerminator(c)
\* [0-9\-\s()]
PhoneChar(c) == IsDigit(c) \/ IsSpace(c) \/ c \in {"-", "(", ")"}

----------------------------------------------------------------------------
(* Payload classifier *)

\* /^https?:\/\/.+/
MatchUrl(s) ==
    \E p \in { <<"h", "t", "t", "p", ":", "/", "/">>,
               <<"h", "t", "t", "p", "s", ":", "/", "/">> } :
        StartsWith(s, p) /\ Len(s) > Len(p) /\ Dot(s[Len(p) + 1])

\* /^mailto:.+@.+\..+/
MatchMailto(s) ==
    /\ StartsWith(s, <<"m", "a", "i", "l", "t", "o", ":">>)
    /\ \E a, b \in 1..Len(s) :
        /\ a >= 9 /\ s[a] = "@"
        /\ b >= a + 2 /\ s[b] = "." /\ b < Len(s)
        /\ \A i \in 8..(b + 1) : Dot(s[i])

\* /^[^@]+@[^@]+\.[^@]+$/
MatchBareEmail(s) ==
    \E a, b \in 1..Len(s) :
        /\ a >= 2 /\ s[a] = "@"
        /\ b >= a + 2 /\ s[b] = "." /\ b < Len(s)
        /\ \A i \in 1..Len(s) : i # a => s[i] # "@"

\* /^<scheme>[+]?[0-9\-\s()]+/ for the scheme "tel:" or "sms:"
MatchDial(s, scheme) ==
    LET n == Len(scheme) IN
    /\ StartsWith(s, scheme)
    /\ \/ Len(s) >= n + 1 /\ PhoneChar(s[n + 1])
       \/ Len(s) >= n + 2 /\ s[n + 1] = "+" /\ PhoneChar(s[n + 2])

\* the pattern without its optional leading +
MatchBarePhone_NoPlus(s) ==
    Len(s) >= 7 /\ \A i \in 1..Len(s) : PhoneChar(s[i])

\* /^[+]?[0-9\-\s()]{7,}$/
MatchBarePhone(s) ==
    LET body == IF Len(s) >= 1 /\ s[1] = "+" THEN Tail(s) ELSE s IN
    Len(body) >= 7 /\ \A i \in 1..Len(body) : PhoneChar(body[i])

\* the rules with the e-mail test ahead of the URL test
detectQRType_EmailFirst(data) ==
    IF data = <<>> THEN "unknown"
    ELSE IF MatchMailto(data) \/ MatchBareEmail(data) THEN "EMAIL"
    ELSE IF MatchUrl(data) THEN "URL"
    ELSE IF MatchDial(data, <<"t", "e", "l", ":">>) \/ MatchBarePhone(data)
         THEN "PHONE"
    ELSE IF MatchDial(data, <<"s", "m", "s", ":">>) THEN "SMS"
    ELSE IF StartsWith(data, <<"W", "I", "F", "I", ":">>) THEN "WIFI"
    ELSE IF StartsWith(data, <<"B", "E", "G", "I", "N", ":",
                               "V", "C", "A", "R", "D">>) THEN "VCARD"
    ELSE "TEXT"

detectQRType(data) ==
    IF data = <<>> THEN "unknown"
    ELSE IF MatchUrl(data) THEN "URL"
    ELSE IF MatchMailto(data) \/ MatchBareEmail(data) THEN "EMAIL"
    ELSE IF MatchDial(data, <<"t", "e", "l", ":">>) \/ MatchBarePhone(data)
         THEN "PHONE"
    ELSE IF MatchDial(data, <<"s", "m", "s", ":">>) THEN "SMS"
    ELSE IF StartsWith(data, <<"W", "I", "F", "I", ":">>) THEN "WIFI"
    ELSE IF StartsWith(data, <<"B", "E", "G", "I", "N", ":",
                               "V", "C", "A", "R", "D">>) THEN "VCARD"
    ELSE "TEXT"

\* data.substring(0, 30) and the '...' that follows it when data is longer
DescriptionChars == 30
\* the ellipsis added from 30 characters on, not from 31
Truncated_EllipsisAtLimit(data) ==
    SubSeq(data, 1, IF Len(data) < DescriptionChars THEN Len(data)
                    ELSE DescriptionChars)
    \o (IF Len(data) >= DescriptionChars THEN <<".", ".", ".">> ELSE <<>>)

Truncated(data) ==
    SubSeq(data, 1, IF Len(data) < DescriptionChars THEN Len(data)
                    ELSE DescriptionChars)
    \o (IF Len(data) > DescriptionChars THEN <<".", ".", ".">> ELSE <<>>)

\* The fixed texts of the source are written as one-element sequences that
\* name them: LabelUrl is the text before the payload of a URL description,
\* and so on; TextFailed is the description of a failed recognition,
\* TextNotFound that of 'no code found', TextTimedOut that of a timeout
LabelUrl == <<"[url] ">>
LabelEmail == <<"[email] ">>
LabelPhone == <<"[phone] ">>
LabelSms == <<"[sms] ">>
LabelText == <<"[text] ">>
TextWifi == <<"[wifi config]">>
TextVcard == <<"[contact]">>
TextFailed == <<"[recognition failed]">>
TextNotFound == <<"[no code recognised]">>
TextTimedOut == <<"[recognition timed out]">>

generateDescription(data, type) ==
    IF data = <<>> THEN TextFailed
    ELSE CASE type = "URL" -> LabelUrl \o Truncated(data)
           [] type = "EMAIL" -> LabelEmail \o data
           [] type = "PHONE" -> LabelPhone \o data
           [] type = "SMS" -> LabelSms \o data
           [] type = "WIFI" -> TextWifi
           [] type = "VCARD" -> TextVcard
           [] type = "TEXT" -> LabelText \o Truncated(data)
           [] OTHER -> Truncated(data)

----------------------------------------------------------------------------
(* Pure helpers *)

\* Math.round on a half-pixel value: floor(v/2 + 1/2)
Round(v) == (v + 1) \div 2

\* `${Math.round(x)}_${Math.round(y)}`
PositionKey(x, y) ==
    NumberToString(Round(x)) \o <<"_">> \o NumberToString(Round(y))

\* what one jsQR call can do on the pixels of a region: find nothing, throw,
\* or return one code that lies wholly inside the region, its corner given
\* relative to the region
Decodable(region) ==
    { c \in img.codes :
        /\ region.x <= c.x /\ c.x + c.size <= region.x + region.w
        /\ region.y <= c.y /\ c.y + c.size <= region.y + region.h }

jsQR(region) ==
    {[kind |-> "null", data |-> <<>>, lx |-> 0, ly |-> 0],
     [kind |-> "throw", data |-> <<>>, lx |-> 0, ly |-> 0]}
    \cup UNION { { [kind |-> "code", data |-> c.data,
                    lx |-> c.x - region.x + j, ly |-> c.y - region.y] :
                    j \in Jitter(c.x) } : c \in Decodable(region) }

\* the QRResult built from a decode at region offset (ox, oy); confidence
\* is 1 for 1.0; `stage` is a history field recording the pass that
\* produced the entry
QRResult(code, ox, oy, stage) ==
    [serialNumber |-> code.data,
     qrType |-> detectQRType(code.data),
     qrDescription |-> generateDescription(code.data,
                                           detectQRType(code.data)),
     confidence |-> 1, processingTime |-> 0,
     hasPosition |-> TRUE,
     x |-> ox + code.lx, y |-> oy + code.ly, stage |-> stage]

FullFrame == [x |-> 0, y |-> 0, w |-> 2 * ImgSizePx, h |-> 2 * ImgSizePx]

\* regions[k] of smartRegionScan, k = 0..8, row-major
GridRegion(k) ==
    [x |-> (k % 3) * ((2 * ImgSizePx) \div 3),
     y |-> (k \div 3) * ((2 * ImgSizePx) \div 3),
     w |-> (2 * ImgSizePx) \div 3, h |-> (2 * ImgSizePx) \div 3]

\* windowSize = min(width, height) * 0.4, stepSize = windowSize * 0.6
WindowSize == (2 * ImgSizePx * 4) \div 10
StepSize == (WindowSize * 6) \div 10
\* number of values of the loop variable: 0, step, ... <= size - windowSize
WindowsPerAxis == ((2 * ImgSizePx - WindowSize) \div StepSize) + 1
WindowCount == WindowsPerAxis * WindowsPerAxis
\* the k-th window of the row-major double loop, k = 0 ..
Window(k) ==
    [x |-> (k % WindowsPerAxis) * StepSize,
     y |-> (k \div WindowsPerAxis) * StepSize,
     w |-> WindowSize, h |-> WindowSize]

\* IsUnique without the comparison of payloads
IsUnique_PositionOnly(res, fp, r) ==
    LET contentKey == r.serialNumber
        positionKey == IF r.hasPosition THEN PositionKey(r.x, r.y)
                       ELSE contentKey
    IN  positionKey \notin fp

\* the test of addUniqueResults: is candidate r pushed?
IsUnique(res, fp, r) ==
    LET contentKey == r.serialNumber
        positionKey == IF r.hasPosition THEN PositionKey(r.x, r.y)
                       ELSE contentKey
    IN  /\ ~ \E i \in 1..Len(res) : res[i].serialNumber = contentKey
        /\ positionKey \notin fp

\* results.unshift(result) in place of push
Push_Front(res, r) == <<r>> \o res

\* results.push(result)
Push(res, r) == Append(res, r)

RECURSIVE addUniqueResults(_, _, _)
addUniqueResults(res, newResults, fp) ==
    IF newResults = <<>> THEN [results |-> res, foundPositions |-> fp]
    ELSE LET r == Head(newResults)
             contentKey == r.serialNumber
             positionKey == IF r.hasPosition THEN PositionKey(r.x, r.y)
                            ELSE contentKey
         IN  IF IsUnique(res, fp, r)
             THEN addUniqueResults(Push(res, r), Tail(newResults),
                                   fp \cup {positionKey, contentKey})
             ELSE addUniqueResults(res, Tail(newResults), fp)

----------------------------------------------------------------------------
(* recognizeMultipleQRCodes *)

NoTimer == [state |-> "unset", due |-> 0]
NoReturn == [kind |-> "none", results |-> <<>>, totalFound |-> 0,
             processingTime |-> 0]

\* const results: QRResult[] = []
NewResults(old) == <<>>
\* foundPositions kept on the service instead of created per call
NewFoundPositions_Shared(old) == old

\* const foundPositions = new Set<string>()
NewFoundPositions(old) == {}

\* as if every `await` of the call handed control to the task queue
EventLoopIdle_AtEveryAwait ==
    pc \in {"load", "done", "fast", "fullQr", "fullLoad", "fullFrameMerge",
            "gridMerge", "slideAwait", "slideMerge", "return"}

\* a task (timer callback, image event, decoder reply) runs only when no
\* code of the call is on the stack and no promise reaction is queued: the
\* call is waiting for an image to load or for QrScanner.scanImage, or it
\* has returned
EventLoopIdle == pc \in {"load", "done", "fast", "fullQr", "fullLoad"}

\* the clock moves to t; remember the accepted results at the moment the
\* timer becomes due while the call is still running
ClockTo(t) ==
    /\ now' = t
    /\ IF ~deadlineHit /\ pc # "done" /\ timer.state = "armed" /\ t >= timer.due
       THEN deadlineHit' = TRUE /\ accAtDeadline' = results
       ELSE UNCHANGED <<deadlineHit, accAtDeadline>>

Hit(o) == IF o.kind = "code" THEN {o.data} ELSE {}

\* the catch block of recognizeMultipleQRCodes
CatchResult == [kind |-> "value", results |-> <<>>, totalFound |-> 0,
                processingTime |-> now - startTime]

\* the gate before the sliding-window pass
AfterGrid == IF now - startTime < SlideGateMs THEN "slide" ELSE "return"
\* the grid pass started whatever time has elapsed
AfterFullFrame_NoGate == "grid"

\* the gate before the grid pass
AfterFullFrame == IF now - startTime < GridGateMs THEN "grid" ELSE AfterGrid

\* entry of the call, up to the first point where it waits
Call ==
    /\ pc \in {"idle", "done"}
    /\ callNo < MaxCalls
    /\ callNo' = callNo + 1
    /\ isInitialized' = TRUE
    /\ now' = 0
    /\ startTime' = 0
    /\ results' = NewResults(results)
    /\ foundPositions' = NewFoundPositions(foundPositions)
    /\ stageResults' = <<>>
    /\ scanPromises' = [n |-> 0, found |-> <<>>]
    /\ idx' = 0
    /\ timer' = NoTimer
    /\ ret' = NoReturn
    /\ hits' = {}
    /\ accAtDeadline' = <<>>
    /\ deadlineHit' = FALSE
    /\ discarded' = FALSE
    /\ ingest' = "none"
    /\ pc' = IF img.src = "string" THEN "load" ELSE "fullFrame"
    /\ UNCHANGED <<img, fastVars, otherVars>>

\* img.onload of createCanvasFromImageData
LoadOk ==
    /\ pc = "load"
    /\ pc' = "fullFrame"
    /\ ingest' = "ok"
    /\ UNCHANGED <<now, isInitialized, img, callNo, startTime, results,
                   foundPositions, stageResults, scanPromises, idx, timer,
                   ret, hits, accAtDeadline, deadlineHit, discarded,
                   fastVars, otherVars>>

\* img.onerror of createCanvasFromImageData: the rejection is caught by the
\* try/catch of recognizeMultipleQRCodes
LoadError ==
    /\ pc = "load"
    /\ pc' = "done"
    /\ ret' = CatchResult
    /\ ingest' = "error"
    /\ UNCHANGED <<now, isInitialized, img, callNo, startTime, results,
                   foundPositions, stageResults, scanPromises, idx, timer,
                   hits, accAtDeadline, deadlineHit, discarded,
                   fastVars, otherVars>>

\* one strategy of quickFullImageScan; after the third the call reaches
\* `await Promise.all`, control returns to recognizeMultipleQRCodes and the
\* timer is set
FullFrameDecode ==
    /\ pc = "fullFrame"
    /\ \E o \in jsQR(FullFrame) :
        /\ stageResults' = IF o.kind = "code"
                           THEN Append(stageResults, QRResult(o, 0, 0, 1))
                           ELSE stageResults
        /\ hits' = hits \cup Hit(o)
    /\ ClockTo(now + img.decodeMs)
    /\ idx' = IF idx = 2 THEN 0 ELSE idx + 1
    /\ pc' = IF idx = 2 THEN "fullFrameMerge" ELSE "fullFrame"
    /\ timer' = IF idx = 2
                THEN [state |-> "armed", due |-> now' + TIMEOUT_MS]
                ELSE timer
    /\ UNCHANGED <<isInitialized, img, callNo, startTime, results,
                   foundPositions, scanPromises, ret, discarded, ingest,
                   fastVars, otherVars>>

\* a stage's results are merged and the next stage is chosen
Merge(next) ==
    LET m == addUniqueResults(results, stageResults, foundPositions)
    IN  /\ results' = m.results
        /\ foundPositions' = m.foundPositions
        /\ stageResults' = <<>>
        /\ discarded' = (discarded \/ Len(m.results) <
                                        Len(results) + Len(stageResults))
        /\ pc' = next
        /\ UNCHANGED <<now, isInitialized, img, callNo, startTime,
                       scanPromises, idx, timer, ret, hits, accAtDeadline,
                       deadlineHit, ingest,
                       fastVars, otherVars>>

FullFrameMerge == pc = "fullFrameMerge" /\ Merge(AfterFullFrame)

\* one region of smartRegionScan
GridDecode ==
    /\ pc = "grid"
    /\ LET region == GridRegion(idx) IN
       \E o \in jsQR(region) :
        /\ stageResults' =
             IF /\ o.kind = "code"
                /\ PositionKey(region.x + o.lx, region.y + o.ly)
                        \notin foundPositions
             THEN Append(stageResults, QRResult(o, region.x, region.y, 2))
             ELSE stageResults
        /\ hits' = hits \cup Hit(o)
    /\ ClockTo(now + img.decodeMs)
    /\ idx' = IF idx = 8 THEN 0 ELSE idx + 1
    /\ pc' = IF idx = 8 THEN "gridMerge" ELSE "grid"
    /\ UNCHANGED <<isInitialized, img, callNo, startTime, results,
                   foundPositions, scanPromises, timer, ret, discarded,
                   ingest,
                   fastVars, otherVars>>

GridMerge == pc = "gridMerge" /\ Merge(AfterGrid)

\* one iteration of the double loop of optimizedSlidingWindow
SlideWindow ==
    /\ pc = "slide"
    /\ LET w == Window(idx)
           skip == PositionKey(w.x, w.y) \in foundPositions
           n == IF skip THEN scanPromises.n ELSE scanPromises.n + 1
           last == idx + 1 = WindowCount
       IN
        /\ \E o \in (IF skip THEN {[kind |-> "skip"]} ELSE jsQR(w)) :
            /\ scanPromises' =
                 [n |-> n,
                  found |-> IF o.kind = "code"
                            THEN Append(scanPromises.found,
                                        QRResult(o, w.x, w.y, 3))
                            ELSE scanPromises.found]
            /\ hits' = hits \cup Hit(o)
        /\ ClockTo(IF skip THEN now ELSE now + img.decodeMs)
        /\ idx' = idx + 1
        /\ pc' = IF n >= SlideBatch \/ (last /\ n > 0) THEN "slideAwait"
                 ELSE IF last THEN "slideMerge" ELSE "slide"
    /\ UNCHANGED <<isInitialized, img, callNo, startTime, results,
                   foundPositions, stageResults, timer, ret, discarded,
                   ingest,
                   fastVars, otherVars>>

\* after `await Promise.all(scanPromises)`
SlideAwait ==
    /\ pc = "slideAwait"
    /\ stageResults' = stageResults \o scanPromises.found
    /\ scanPromises' = [n |-> 0, found |-> <<>>]
    /\ pc' = IF idx = WindowCount THEN "slideMerge" ELSE "slide"
    /\ UNCHANGED <<now, isInitialized, img, callNo, startTime, results,
                   foundPositions, idx, timer, ret, hits, accAtDeadline,
                   deadlineHit, discarded, ingest,
                   fastVars, otherVars>>

SlideMerge == pc = "slideMerge" /\ Merge("return")

\* the returned object with totalFound counting the payloads the decoder
\* gave, accepted or not
MultiQRResult_CountsDecoded(res) ==
    [kind |-> "value", results |-> res, totalFound |-> Cardinality(hits),
     processingTime |-> now - startTime]

\* the object literal returned after Promise.race
MultiQRResult(res) ==
    [kind |-> "value", results |-> res, totalFound |-> Len(res),
     processingTime |-> now - startTime]

\* Promise.race is resolved by recognitionPromise
Return ==
    /\ pc = "return"
    /\ pc' = "done"
    /\ ret' = MultiQRResult(results)
    /\ UNCHANGED <<now, isInitialized, img, callNo, startTime, results,
                   foundPositions, stageResults, scanPromises, idx, timer,
                   hits, accAtDeadline, deadlineHit, discarded, ingest,
                   fastVars, otherVars>>

\* the setTimeout callback: rejects timeoutPromise; if the race is still
\* open the rejection is caught by the try/catch
TimerFire ==
    /\ timer.state = "armed"
    /\ now >= timer.due
    /\ EventLoopIdle
    /\ timer' = [timer EXCEPT !.state = "fired"]
    /\ IF pc # "done"
       THEN pc' = "done" /\ ret' = CatchResult
       ELSE UNCHANGED <<pc, ret>>
    /\ UNCHANGED <<now, isInitialized, img, callNo, startTime, results,
                   foundPositions, stageResults, scanPromises, idx, hits,
                   accAtDeadline, deadlineHit, discarded, ingest,
                   fastVars, otherVars>>

\* time passes while nothing runs
Idle ==
    /\ \/ pc = "load" /\ now - startTime < MaxLoadMs
       \/ pc = "done" /\ timer.state = "armed" /\ now < timer.due
    /\ \E d \in IdleMs : ClockTo(now + d)
    /\ UNCHANGED <<isInitialized, img, callNo, pc, startTime, results,
                   foundPositions, stageResults, scanPromises, idx, timer,
                   ret, hits, discarded, ingest,
                   fastVars, otherVars>>

Unissued == [state |-> "unissued", data |-> <<>>]

\* the classifier has not been called
NoOutput == [by |-> "none", isValid |-> FALSE, type |-> "none",
             description |-> <<>>]

Init ==
    /\ now = 0
    /\ isInitialized = FALSE
    /\ img \in Scenarios
    /\ callNo = 0
    /\ pc = "idle"
    /\ startTime = 0
    /\ results = <<>>
    /\ foundPositions = {}
    /\ stageResults = <<>>
    /\ scanPromises = [n |-> 0, found |-> <<>>]
    /\ idx = 0
    /\ timer = NoTimer
    /\ ret = NoReturn
    /\ hits = {}
    /\ accAtDeadline = <<>>
    /\ deadlineHit = FALSE
    /\ discarded = FALSE
    /\ ingest = "none"
    /\ qrFast = Unissued
    /\ jsFast = Unissued
    /\ firstFast = "none"
    /\ tried = <<>>
    /\ input = <<>>
    /\ out = NoOutput
    /\ imageCount = 0
    /\ batchStart = 0
    /\ inFlight = {}
    /\ batchResults = <<>>
    /\ started = <<>>
    /\ checkElapsed = <<>>
    /\ progress = <<>>
    /\ page = "none"
    /\ fallback = [called |-> FALSE, result |-> <<>>]
    /\ surfaced = <<>>
    /\ selectedFiles = 0
    /\ pageResults = <<>>
    /\ isProcessing = FALSE
    /\ isPaused = FALSE
    /\ currentIndex = 0
    /\ processingStats = [total |-> 0, completed |-> 0, success |-> 0,
                          failed |-> 0]
    /\ loops = <<>>
    /\ retry = [active |-> FALSE, fileIndex |-> 0, entryFile |-> 0,
                entryId |-> <<0, 0>>]
    /\ storeResults = <<>>
    /\ begun = <<>>
    /\ written = [by |-> "none", file |-> 0, over |-> 0]
    /\ idClock = 0

MultiNext ==
    \/ Call
    \/ LoadOk
    \/ LoadError
    \/ FullFrameDecode
    \/ FullFrameMerge
    \/ GridDecode
    \/ GridMerge
    \/ SlideWindow
    \/ SlideAwait
    \/ SlideMerge
    \/ Return
    \/ TimerFire
    \/ Idle

SpecMulti == Init /\ [][MultiNext]_vars

----------------------------------------------------------------------------
(* Properties of recognizeMultipleQRCodes *)

Returned == pc = "done" /\ ret.kind = "value"

IsPrefix(s, t) == Len(s) <= Len(t) /\ \A i \in 1..Len(s) : s[i] = t[i]

PayloadsOf(res) == { res[i].serialNumber : i \in 1..Len(res) }

C2_LoadFailurePropagates ==
    (pc = "done" /\ ingest = "error") => ret.kind = "throw"

\* C3: the accepted result list never holds two entries with the same
\* payload, nor two entries whose rounded (x, y) origins are equal
C3_NoDuplicates ==
    \A i, j \in 1..Len(results) :
        i # j =>
            /\ results[i].serialNumber # results[j].serialNumber
            /\ ~ ( /\ Round(results[i].x) = Round(results[j].x)
                   /\ Round(results[i].y) = Round(results[j].y) )

\* a merge that discarded a candidate and kept two entries
C3_Witness ==
    /\ pc \in {"slide", "return"}
    /\ Len(results) >= 2
    /\ discarded

ThreeDistinctCodes ==
    /\ Cardinality(img.codes) = 3
    /\ Cardinality({ c.data : c \in img.codes }) = 3
    /\ \A k \in 0..8 : Cardinality(Decodable(GridRegion(k))) <= 1

\* C4: for an image with 3 codes in distinct grid cells and with distinct
\* payloads, each found by some stage, the call returns totalFound = 3 and
\* 3 entries with distinct payloads (the code drops a code whose position
\* key equals the payload of an accepted one)
C4_ThreeCodesFound ==
    (Returned /\ ThreeDistinctCodes /\ Cardinality(hits) = 3) =>
        /\ ret.totalFound = 3
        /\ Len(ret.results) = 3
        /\ Cardinality(PayloadsOf(ret.results)) = 3

\* C5: each call on the same single-code image returns exactly one entry
\* when the code is decoded, whatever earlier calls accepted; a call starts
\* with an empty result list and an empty seen set
C5_OnePerCall ==
    /\ (Returned /\ Cardinality(img.codes) = 1 /\ hits # {}) =>
            ret.totalFound = 1 /\ Len(ret.results) = 1
    /\ (pc \in {"load", "fullFrame"}) =>
            results = <<>> /\ foundPositions = {}

C5_Witness ==
    /\ Returned /\ callNo = 2
    /\ Cardinality(img.codes) = 1
    /\ Len(ret.results) = 1

\* C6: with a decode primitive that takes 3 s per call, the call returns
\* at about the 2.0 s deadline (the code returns after three decodes)
C6_ReturnsAtDeadline ==
    (pc = "done" /\ img.src = "canvas" /\ img.decodeMs = 3000) =>
        /\ ret.kind = "value"
        /\ ret.processingTime <= TIMEOUT_MS + 100

\* C10: in the returned sequence, full-frame entries (stage 1) precede grid
\* entries (stage 2), which precede sliding-window entries (stage 3)
C10_DiscoveryOrder ==
    Returned =>
        \A i, j \in 1..Len(ret.results) :
            i < j => ret.results[i].stage <= ret.results[j].stage

C10_Witness ==
    /\ Returned
    /\ Len(ret.results) = 3
    /\ ret.results[1].stage = 1
    /\ ret.results[2].stage = 2
    /\ ret.results[3].stage = 3

\* C11: in every object the call returns, through the return after the race
\* or through the catch block, totalFound is the number of entries of
\* results
C11_TotalFoundIsLength ==
    (pc = "done") =>
        /\ ret.kind = "value"
        /\ ret.totalFound = Len(ret.results)

\* a return with two entries although three payloads were decoded
C11_Witness ==
    /\ Returned
    /\ ret.totalFound = 2
    /\ Cardinality(hits) = 3

----------------------------------------------------------------------------
(* recognizeImage *)

SINGLE_TIMEOUT_MS == 1500
FullGateMs == 800

\* the object literals with an empty serialNumber
EmptyResult(description) ==
    [serialNumber |-> <<>>, qrType |-> "unknown",
     qrDescription |-> description, confidence |-> 0, processingTime |-> 0]

\* the object literal built from a decoded text
DecodedResult(data) ==
    [serialNumber |-> data, qrType |-> detectQRType(data),
     qrDescription |-> generateDescription(data, detectQRType(data)),
     confidence |-> 1, processingTime |-> 0]

\* what a fast recognizer returns for the text its decoder gave:
\* `if (result) {...}` and the empty result after it
FastResult(data) ==
    IF data # <<>> THEN DecodedResult(data) ELSE EmptyResult(<<>>)

\* the catch block of recognizeImage with one description for every error
CatchDescription_NotFound(isTimeout) == TextNotFound

\* the description the catch block of recognizeImage gives an error
CatchDescription(isTimeout) ==
    IF isTimeout THEN TextTimedOut ELSE TextFailed

\* the catch block of recognizeImage
SingleCatch(isTimeout) == EmptyResult(CatchDescription(isTimeout))

\* the last statement of performFastSingleRecognition
NotFoundResult == EmptyResult(TextNotFound)

\* as if the try/catch around the complete recognition were missing: the
\* rejection reaches the catch block of recognizeImage
OnFullFailure_Uncaught == SingleCatch(FALSE)

\* a failure of the complete recognition is caught and ignored, and the
\* function goes on to return the empty result
OnFullFailure == NotFoundResult

\* the loop over fastResults with the secondary decoder looked at first
FirstWithPayload_SecondaryFirst(qr, js) ==
    IF js.serialNumber # <<>> THEN js ELSE qr

\* the loop over fastResults: the first entry, in the order [QrScanner,
\* jsQR], whose serialNumber is not empty, else one with an empty one
FirstWithPayload(qr, js) ==
    IF qr.serialNumber # <<>> THEN qr ELSE js

\* what QrScanner.scanImage can do: reject, or resolve with the payload of
\* a code of the image
ScanImage ==
    {[kind |-> "reject", data |-> <<>>]}
    \cup { [kind |-> "resolve", data |-> c.data] : c \in img.codes }

Pending == [state |-> "pending", data |-> <<>>]
Settled(data) == [state |-> "settled", data |-> data]

\* recognizeWithJsQRFast has settled: the text jsQR gave, and whether jsQR
\* gave a code at all (`if (code)`)
JsSettled(o) ==
    [state |-> "settled", data |-> o.data, code |-> o.kind = "code"]

\* what recognizeWithJsQRFast returns: the literal with confidence 1.0 for
\* any code, the empty result otherwise
JsFastResult(p) ==
    IF p.code THEN DecodedResult(p.data) ELSE EmptyResult(<<>>)

\* the call returns r at time t; `via` and `at` are history fields: the
\* path that produced the value and the time of the return
ReturnSingle(r, via, t) ==
    /\ pc' = "done"
    /\ ret' = [kind |-> "value", via |-> via, at |-> t,
               result |-> [r EXCEPT !.processingTime = t - startTime]]

NoSingleReturn == [kind |-> "none", via |-> "none", at |-> 0,
                   result |-> EmptyResult(<<>>)]

FirstFast(who, data) ==
    IF firstFast = "none" /\ data # <<>> THEN who ELSE firstFast

multiLocals == <<results, foundPositions, stageResults, scanPromises,
                 accAtDeadline, deadlineHit, discarded>>

\* entry of recognizeImage up to `await Promise.race`: both fast recognizers
\* are started, for a canvas the jsQR one decodes at once, and then the
\* timer is set
CallSingle ==
    /\ pc \in {"idle", "done"}
    /\ callNo < MaxCalls
    /\ callNo' = callNo + 1
    /\ isInitialized' = TRUE
    /\ startTime' = 0
    /\ idx' = 0
    /\ ret' = NoSingleReturn
    /\ ingest' = "none"
    /\ pc' = "fast"
    /\ qrFast' = Pending
    /\ tried' = <<>>
    /\ IF img.src = "string"
       THEN /\ jsFast' = Pending
            /\ now' = 0
            /\ hits' = {}
            /\ firstFast' = "none"
       ELSE \E o \in jsQR(FullFrame) :
            /\ jsFast' = JsSettled(o)
            /\ now' = img.decodeMs
            /\ hits' = Hit(o)
            /\ firstFast' = IF o.data # <<>> THEN "js" ELSE "none"
    /\ timer' = [state |-> "armed", due |-> now' + SINGLE_TIMEOUT_MS]
    /\ UNCHANGED <<img, multiLocals, otherVars>>

\* where the function is once a fast recognizer has settled: at the loop
\* over fastResults if the other one has settled too
AfterFastSettle(other) ==
    IF other.state = "settled" THEN "fastCheck" ELSE "fast"

\* QrScanner.scanImage of recognizeWithQrScannerFast settles
QrFastSettle ==
    /\ pc = "fast"
    /\ qrFast.state = "pending"
    /\ \E o \in ScanImage :
        /\ qrFast' = Settled(o.data)
        /\ hits' = hits \cup (IF o.data # <<>> THEN {o.data} ELSE {})
        /\ firstFast' = FirstFast("qr", o.data)
    /\ pc' = AfterFastSettle(jsFast)
    /\ UNCHANGED <<now, isInitialized, img, callNo, startTime, idx, timer,
                   ret, ingest, jsFast, tried, multiLocals, otherVars>>

\* the image of recognizeWithJsQRFast loads and is decoded
JsFastLoadOk ==
    /\ pc = "fast"
    /\ jsFast.state = "pending"
    /\ \E o \in jsQR(FullFrame) :
        /\ jsFast' = JsSettled(o)
        /\ hits' = hits \cup Hit(o)
        /\ firstFast' = FirstFast("js", o.data)
    /\ now' = now + img.decodeMs
    /\ ingest' = "ok"
    /\ pc' = AfterFastSettle(qrFast)
    /\ UNCHANGED <<isInitialized, img, callNo, startTime, idx, timer, ret,
                   qrFast, tried, multiLocals, otherVars>>

\* the image of recognizeWithJsQRFast fails to load: the rejection is
\* caught inside recognizeWithJsQRFast
JsFastLoadError ==
    /\ pc = "fast"
    /\ jsFast.state = "pending"
    /\ jsFast' = JsSettled([kind |-> "throw", data |-> <<>>])
    /\ ingest' = "error"
    /\ pc' = AfterFastSettle(qrFast)
    /\ UNCHANGED <<now, isInitialized, img, callNo, startTime, idx, timer,
                   ret, hits, qrFast, firstFast, tried, multiLocals,
                   otherVars>>

\* the complete recognition entered whatever time has elapsed
TimeForFull_Always(elapsed) == TRUE

\* Date.now() - startTime < 800
TimeForFull(elapsed) == elapsed < FullGateMs

\* after `await Promise.allSettled`: the loop over fastResults and the
\* gate of the complete recognition
FastCheck ==
    /\ pc = "fastCheck"
    /\ LET r == FirstWithPayload(FastResult(qrFast.data),
                                 JsFastResult(jsFast))
       IN  IF r.serialNumber # <<>>
           THEN ReturnSingle(r, "fast", now)
           ELSE IF TimeForFull(now - startTime)
                THEN pc' = "fullQr" /\ ret' = ret
                ELSE ReturnSingle(NotFoundResult, "notFound", now)
    /\ UNCHANGED <<now, isInitialized, img, callNo, startTime, idx, timer,
                   hits, ingest, fastVars, multiLocals, otherVars>>

\* QrScanner.scanImage of the complete recognition settles; a rejection
\* leads to recognizeWithJsQR or recognizeCanvasWithJsQR
FullQrSettle ==
    /\ pc = "fullQr"
    /\ \E o \in ScanImage :
        /\ hits' = hits \cup (IF o.data # <<>> THEN {o.data} ELSE {})
        /\ IF o.kind = "resolve"
           THEN IF o.data # <<>>
                THEN ReturnSingle(DecodedResult(o.data), "full", now)
                ELSE ReturnSingle(NotFoundResult, "notFound", now)
           ELSE /\ pc' = IF img.src = "string" THEN "fullLoad"
                         ELSE "strategies"
                /\ ret' = ret
    /\ UNCHANGED <<now, isInitialized, img, callNo, startTime, idx, timer,
                   ingest, fastVars, multiLocals, otherVars>>

\* img.onload of recognizeWithJsQR
FullLoadOk ==
    /\ pc = "fullLoad"
    /\ pc' = "strategies"
    /\ UNCHANGED <<now, isInitialized, img, callNo, startTime, idx, timer,
                   ret, hits, ingest, fastVars, multiLocals, otherVars>>

\* img.onerror of recognizeWithJsQR
FullLoadError ==
    /\ pc = "fullLoad"
    /\ ReturnSingle(OnFullFailure, "notFound", now)
    /\ UNCHANGED <<now, isInitialized, img, callNo, startTime, idx, timer,
                   hits, ingest, fastVars, multiLocals, otherVars>>

\* the strategies of tryMultipleRecognitionStrategies: original, contrast,
\* brighter, darker, sharpened, and the scales 0.5, 0.75, 1.25, 1.5, 2.0
StrategyCount == 10

\* one entry of the strategy list: the transform applied to the original
\* pixels, its argument (a brightness offset, or a scale in hundredths) and
\* the option every strategy hands to jsQR
Attempt(transform, arg) ==
    [transform |-> transform, arg |-> arg, inversionAttempts |-> "attemptBoth"]

\* const scales = [0.5, 0.75, 1.25, 1.5, 2.0], in hundredths
scales == <<50, 75, 125, 150, 200>>

\* the strategy list with the scales tried before the other transforms
Strategies_ScalesFirst ==
    [k \in 1..Len(scales) |-> Attempt("scaleImage", scales[k])]
    \o <<Attempt("original", 0), Attempt("enhanceContrast", 0),
         Attempt("adjustBrightness", 30), Attempt("adjustBrightness", -30),
         Attempt("sharpenImage", 0)>>

\* the strategies in the order of the statements of
\* tryMultipleRecognitionStrategies
Strategies ==
    <<Attempt("original", 0), Attempt("enhanceContrast", 0),
      Attempt("adjustBrightness", 30), Attempt("adjustBrightness", -30),
      Attempt("sharpenImage", 0)>>
    \o [k \in 1..Len(scales) |-> Attempt("scaleImage", scales[k])]

\* scaleImage returned null: the scale is passed over without a decode
Skipped == [kind |-> "skip", data |-> <<>>, lx |-> 0, ly |-> 0]

\* what one strategy can do: the outcomes of its jsQR call, and for a scale
\* also nothing at all when scaleImage gives null
StrategyOutcomes(s) ==
    jsQR(FullFrame)
    \cup (IF s.transform = "scaleImage" THEN {Skipped} ELSE {})

\* one strategy of tryMultipleRecognitionStrategies: a code ends the
\* function (`if (code) return code.data`), an exception leaves it, nothing
\* found moves to the next
Strategy ==
    /\ pc = "strategies"
    /\ \E o \in StrategyOutcomes(Strategies[idx + 1]) :
        /\ now' = now + (IF o.kind = "skip" THEN 0 ELSE img.decodeMs)
        /\ tried' = Append(tried, [strategy |-> Strategies[idx + 1],
                                   kind |-> o.kind, data |-> o.data])
        /\ hits' = hits \cup Hit(o)
        /\ IF o.kind = "code" /\ o.data # <<>>
           THEN /\ ReturnSingle(DecodedResult(o.data), "full", now')
                /\ idx' = idx
           ELSE IF o.kind \in {"code", "throw"} \/ idx + 1 = StrategyCount
           THEN /\ ReturnSingle(OnFullFailure, "notFound", now')
                /\ idx' = idx
           ELSE /\ pc' = "strategies"
                /\ ret' = ret
                /\ idx' = idx + 1
    /\ UNCHANGED <<isInitialized, img, callNo, startTime, timer, ingest,
                   qrFast, jsFast, firstFast, multiLocals, otherVars>>

\* the setTimeout callback of recognizeImage: rejects timeoutPromise; if
\* the race is still open the rejection is caught by the try/catch
TimerFireSingle ==
    /\ timer.state = "armed"
    /\ now >= timer.due
    /\ EventLoopIdle
    /\ timer' = [timer EXCEPT !.state = "fired"]
    /\ IF pc # "done"
       THEN ReturnSingle(SingleCatch(TRUE), "timeout", now)
       ELSE UNCHANGED <<pc, ret>>
    /\ UNCHANGED <<now, isInitialized, img, callNo, startTime, idx, hits,
                   ingest, fastVars, multiLocals, otherVars>>

\* time passes while nothing runs; a timer that is due runs before more
\* time passes
IdleSingle ==
    /\ EventLoopIdle
    /\ timer.state = "armed" /\ now < timer.due
    /\ \E d \in IdleMs : now' = now + d
    /\ UNCHANGED <<isInitialized, img, callNo, pc, startTime, idx, timer,
                   ret, hits, ingest, fastVars, multiLocals, otherVars>>

SingleNext ==
    \/ CallSingle
    \/ QrFastSettle
    \/ JsFastLoadOk
    \/ JsFastLoadError
    \/ FastCheck
    \/ FullQrSettle
    \/ FullLoadOk
    \/ FullLoadError
    \/ Strategy
    \/ TimerFireSingle
    \/ IdleSingle

SpecSingle == Init /\ [][SingleNext]_vars

----------------------------------------------------------------------------
(* Properties of recognizeImage *)

\* C7: when the 1.5 s timer fires before recognition has produced a result,
\* the call returns a value (it does not raise) with an empty payload,
\* confidence 0 and the 'timed out' description, which is not the 'no code
\* found' description; no other return carries the 'timed out' description
C7_TimeoutResult ==
    (pc = "done") =>
        /\ ret.kind = "value"
        /\ (ret.via = "timeout") =>
              /\ ret.result.serialNumber = <<>>
              /\ ret.result.confidence = 0
              /\ ret.result.qrDescription = TextTimedOut
              /\ ret.result.qrDescription # TextNotFound
              /\ ret.result.processingTime >= SINGLE_TIMEOUT_MS
        /\ (ret.via # "timeout") => ret.result.qrDescription # TextTimedOut

C7_Witness ==
    /\ pc = "done"
    /\ ret.via = "timeout"
    /\ qrFast.state = "pending"

\* C8: a call that ends, not by the timer, without any decoder having
\* returned a payload returns a value with payload "", type unknown, the
\* 'not found' description, confidence 0 and the elapsed time
C8_NotFoundResult ==
    (pc = "done" /\ ret.via # "timeout" /\ hits = {}) =>
        /\ ret.kind = "value"
        /\ ret.via = "notFound"
        /\ ret.result =
             [serialNumber |-> <<>>, qrType |-> "unknown",
              qrDescription |-> TextNotFound, confidence |-> 0,
              processingTime |-> ret.at - startTime]

\* the complete recognition ran all its strategies and found nothing
C8_Witness ==
    /\ pc = "done"
    /\ ret.via = "notFound"
    /\ hits = {}
    /\ idx = StrategyCount - 1
    /\ ret.result.processingTime > 0

FastData(who) == IF who = "qr" THEN qrFast.data ELSE jsFast.data

\* C9 as stated: once a fast decoder has returned a non-empty payload, the
\* call returns the result of the decoder that did so first (the code
\* waits for both and prefers the primary one)
C9_FirstReturnerAccepted ==
    (pc = "done" /\ firstFast # "none") =>
        /\ ret.via = "fast"
        /\ ret.result.serialNumber = FastData(firstFast)

\* C9 amended: both fast decoders are issued by the call before it first
\* waits; a result is accepted from them only when both have settled, and
\* it is the primary (QrScanner) result if its payload is not empty,
\* otherwise the secondary (jsQR) one; when both have settled and either
\* payload is not empty, that is what the call returns
C9_PrimaryPreferred ==
    /\ (pc # "idle") =>
          qrFast.state # "unissued" /\ jsFast.state # "unissued"
    /\ (pc = "done" /\ ret.via = "fast") =>
          /\ qrFast.state = "settled" /\ jsFast.state = "settled"
          /\ ret.result.serialNumber =
                (IF qrFast.data # <<>> THEN qrFast.data ELSE jsFast.data)
          /\ ret.result.serialNumber # <<>>
    /\ (/\ pc = "done"
        /\ qrFast.state = "settled" /\ jsFast.state = "settled"
        /\ (qrFast.data # <<>> \/ jsFast.data # <<>>)) => ret.via = "fast"

\* the secondary decoder returned a payload first, the primary one another
\* payload later
C9_Witness ==
    /\ pc = "done"
    /\ ret.via = "fast"
    /\ firstFast = "js"
    /\ qrFast.data # <<>>
    /\ jsFast.data # <<>>
    /\ qrFast.data # jsFast.data

----------------------------------------------------------------------------
(* The payload classifier as an operation *)

\* the fixed descriptions of validateQRData, written like the fixed texts
\* of generateDescription; those for WIFI and VCARD are the same texts
NameUrl == <<"[url]">>
NameEmail == <<"[email]">>
NamePhone == <<"[phone]">>
NameSms == <<"[sms]">>
NameText == <<"[text content]">>
TextEmptyData == <<"[empty data]">>

Validated(isValid, type, description) ==
    [isValid |-> isValid, type |-> type, description |-> description]

\* validateQRData without its rule for sms: texts
validateQRData_NoSms(d) ==
    IF d = <<>> THEN Validated(FALSE, "UNKNOWN", TextEmptyData)
    ELSE IF MatchUrl(d) THEN Validated(TRUE, "URL", NameUrl)
    ELSE IF MatchMailto(d) \/ MatchBareEmail(d)
         THEN Validated(TRUE, "EMAIL", NameEmail)
    ELSE IF MatchDial(d, <<"t", "e", "l", ":">>) \/ MatchBarePhone(d)
         THEN Validated(TRUE, "PHONE", NamePhone)
    ELSE IF StartsWith(d, <<"W", "I", "F", "I", ":">>)
         THEN Validated(TRUE, "WIFI", TextWifi)
    ELSE IF StartsWith(d, <<"B", "E", "G", "I", "N", ":",
                            "V", "C", "A", "R", "D">>)
         THEN Validated(TRUE, "VCARD", TextVcard)
    ELSE Validated(TRUE, "TEXT", NameText)

validateQRData(d) ==
    IF d = <<>> THEN Validated(FALSE, "UNKNOWN", TextEmptyData)
    ELSE IF MatchUrl(d) THEN Validated(TRUE, "URL", NameUrl)
    ELSE IF MatchMailto(d) \/ MatchBareEmail(d)
         THEN Validated(TRUE, "EMAIL", NameEmail)
    ELSE IF MatchDial(d, <<"t", "e", "l", ":">>) \/ MatchBarePhone(d)
         THEN Validated(TRUE, "PHONE", NamePhone)
    ELSE IF MatchDial(d, <<"s", "m", "s", ":">>)
         THEN Validated(TRUE, "SMS", NameSms)
    ELSE IF StartsWith(d, <<"W", "I", "F", "I", ":">>)
         THEN Validated(TRUE, "WIFI", TextWifi)
    ELSE IF StartsWith(d, <<"B", "E", "G", "I", "N", ":",
                            "V", "C", "A", "R", "D">>)
         THEN Validated(TRUE, "VCARD", TextVcard)
    ELSE Validated(TRUE, "TEXT", NameText)

\* texts handed to the classifier: the literal payloads

LitUrl ==
    <<"h", "t", "t", "p", "s", ":", "/", "/", "e", "x", "a", "m", "p", "l",
      "e", ".", "c", "o", "m", "/", "a">>
LitEmail ==
    <<"t", "e", "s", "t", "@", "e", "x", "a", "m", "p", "l", "e", ".", "c",
      "o", "m">>
LitPhone ==
    <<"+", "1", "-", "5", "5", "5", "-", "1", "2", "3", "4", "5", "6", "7">>
LitSms ==
    <<"s", "m", "s", ":", "+", "1", "5", "5", "5", "1", "2", "3", "4", "5",
      "6", "7">>
LitWifi ==
    <<"W", "I", "F", "I", ":", "T", ":", "W", "P", "A", ";", "S", ":", "n",
      "e", "t", ";", ";">>
LitVcard ==
    <<"B", "E", "G", "I", "N", ":", "V", "C", "A", "R", "D", "\n", "E", "N",
      "D", ":", "V", "C", "A", "R", "D">>
LitText == <<"h", "e", "l", "l", "o", " ", "w", "o", "r", "l", "d">>

Literals == {<<>>, LitUrl, LitEmail, LitPhone, LitSms, LitWifi, LitVcard,
             LitText}

\* texts composed of a scheme, a body and an ending, so that a text can
\* match several patterns, one, or none
Schemes ==
    { <<>>,
      <<"h", "t", "t", "p", ":", "/", "/">>,
      <<"h", "t", "t", "p", "s", ":", "/", "/">>,
      <<"m", "a", "i", "l", "t", "o", ":">>,
      <<"t", "e", "l", ":">>,
      <<"s", "m", "s", ":">>,
      <<"W", "I", "F", "I", ":">>,
      <<"B", "E", "G", "I", "N", ":", "V", "C", "A", "R", "D">>,
      <<"H", "T", "T", "P", ":", "/", "/">> }
Bodies ==
    { <<>>,
      <<"a">>,
      <<"a", "@", "b", ".", "c">>,
      <<"a", "@", "b">>,
      <<"@", "b", ".", "c">>,
      <<"a", "@", "@", "b", ".", "c">>,
      <<"a", "@", "b", ".">>,
      <<"+", "1", "2", "3", "4", "5", "6", "7">>,
      <<"1", "2", "3", "4", "5", "6", "7">>,
      <<"1", "2", "3", "4", "5", "6">>,
      <<"(", "1", "2", ")", " ", "3", "4", "-", "5", "6">>,
      <<"+">>,
      <<"1", "@", "2", ".", "3">> }
Endings == { <<>>, <<"x">>, <<"\n">> }

Composed == { s \o b \o e : s \in Schemes, b \in Bodies, e \in Endings }

RECURSIVE Repeat(_, _)
Repeat(c, n) == IF n = 0 THEN <<>> ELSE <<c>> \o Repeat(c, n - 1)

\* the longest text handed to the classifier
MaxPayloadLen == 32

\* texts of every length up to MaxPayloadLen that are TEXT, and that are URL
Sized ==
    { Repeat("a", n) : n \in 0..MaxPayloadLen }
    \cup { <<"h", "t", "t", "p", ":", "/", "/">> \o Repeat("a", n - 7) :
             n \in 8..MaxPayloadLen }

ClassifierInputs == Literals \cup Composed \cup Sized

\* detectQRType followed by generateDescription, as every recognizer calls
\* them on a decoded text; the functions keep no state, so one call per
\* behaviour covers every call
Classify ==
    /\ out.by = "none"
    /\ \E d \in ClassifierInputs :
        /\ input' = d
        /\ out' = [by |-> "detectQRType",
                   result |-> [type |-> detectQRType(d),
                               description |->
                                   generateDescription(d, detectQRType(d))]]
    /\ UNCHANGED <<mvars, fastVars, batchVars, viewVars>>

\* a call of validateQRData
Validate ==
    /\ out.by = "none"
    /\ \E d \in ClassifierInputs :
        /\ input' = d
        /\ out' = [by |-> "validateQRData", result |-> validateQRData(d)]
    /\ UNCHANGED <<mvars, fastVars, batchVars, viewVars>>

ClassifyNext ==
    \/ Classify
    \/ Validate

SpecClassify == Init /\ [][ClassifyNext]_vars

----------------------------------------------------------------------------
(* Properties of the payload classifier *)

\* the type names of the claims in the spelling of the function that ran:
\* detectQRType writes 'unknown' where validateQRData writes 'UNKNOWN'
Spelled(type) ==
    IF type = "UNKNOWN" /\ out.by = "detectQRType" THEN "unknown" ELSE type

LiteralTypes ==
    { <<LitUrl, "URL">>, <<LitEmail, "EMAIL">>, <<LitPhone, "PHONE">>,
      <<LitSms, "SMS">>, <<LitWifi, "WIFI">>, <<LitVcard, "VCARD">>,
      <<LitText, "TEXT">>, <<<<>>, "UNKNOWN">> }

\* C12: detectQRType and validateQRData give each literal payload its type:
\* "https://example.com/a" URL, "test@example.com" EMAIL, "+1-555-1234567"
\* PHONE, "sms:+15551234567" SMS, "WIFI:T:WPA;S:net;;" WIFI,
\* "BEGIN:VCARD\nEND:VCARD" VCARD, "hello world" TEXT, "" UNKNOWN; and
\* validateQRData gives "" the description 'empty data'
C12_LiteralTypes ==
    (out.by # "none") =>
        /\ \A p \in LiteralTypes :
              input = p[1] => out.result.type = Spelled(p[2])
        /\ (input = <<>> /\ out.by = "validateQRData") =>
              /\ out.result.description = TextEmptyData
              /\ ~out.result.isValid

C12_Witness ==
    /\ input = LitPhone
    /\ out.by = "validateQRData"
    /\ out.result.type = "PHONE"

RuleType == <<"URL", "EMAIL", "PHONE", "SMS", "WIFI", "VCARD">>

\* does the k-th rule, in the order of RuleType, match d?
RuleMatches(k, d) ==
    CASE k = 1 -> MatchUrl(d)
      [] k = 2 -> MatchMailto(d) \/ MatchBareEmail(d)
      [] k = 3 -> MatchDial(d, <<"t", "e", "l", ":">>) \/ MatchBarePhone(d)
      [] k = 4 -> MatchDial(d, <<"s", "m", "s", ":">>)
      [] k = 5 -> StartsWith(d, <<"W", "I", "F", "I", ":">>)
      [] k = 6 -> StartsWith(d, <<"B", "E", "G", "I", "N", ":",
                                  "V", "C", "A", "R", "D">>)

Matching(d) == { k \in 1..6 : RuleMatches(k, d) }

\* C13: the type is that of the earliest rule, in the order URL, EMAIL,
\* PHONE, SMS, WIFI, VCARD, that the text matches; a non-empty text that
\* matches none is TEXT; UNKNOWN is the type of the empty text and of no
\* other
C13_FirstMatchWins ==
    (out.by # "none") =>
        /\ (input # <<>> /\ Matching(input) # {}) =>
              \E k \in Matching(input) :
                  /\ \A j \in Matching(input) : k <= j
                  /\ out.result.type = RuleType[k]
        /\ (input # <<>> /\ Matching(input) = {}) => out.result.type = "TEXT"
        /\ (out.result.type = Spelled("UNKNOWN")) <=> (input = <<>>)

\* a text that matches the URL rule and the EMAIL rule
C13_Witness ==
    /\ out.by = "detectQRType"
    /\ Cardinality(Matching(input)) >= 2
    /\ out.result.type = "URL"

Ellipsis == <<".", ".", ".">>

LabelOf(type) == IF type = "URL" THEN LabelUrl ELSE LabelText

\* C14: the description generateDescription gives a URL or TEXT payload is
\* its label followed by the whole payload when the payload has 30
\* characters or fewer, and by the first 30 characters and the ellipsis
\* when it has 31 (or more)
C14_TruncationBoundary ==
    (out.by = "detectQRType" /\ out.result.type \in {"URL", "TEXT"}) =>
        /\ (Len(input) <= 30) =>
              out.result.description = LabelOf(out.result.type) \o input
        /\ (Len(input) >= 31) =>
              out.result.description =
                  LabelOf(out.result.type) \o SubSeq(input, 1, 30)
                      \o Ellipsis

\* a URL of exactly 31 characters has been described
C14_Witness ==
    /\ out.by = "detectQRType"
    /\ out.result.type = "URL"
    /\ Len(input) = 31
    /\ Len(out.result.description) = 1 + 30 + 3

----------------------------------------------------------------------------
(* recognizeImages *)

BATCH_SIZE == 3
PerImageBudgetMs == 2000

\* the most images handed to one call
MaxImages == 4

\* how much later than the previous event a recognition of a group may
\* settle: at once, at its 1.5 s timer, or after long synchronous decodes
SettleMs == {0, 1500, 4500}

\* slots of `new Array(imageDataList.length)`: a hole, or a result
Hole == [filled |-> FALSE, value |-> EmptyResult(<<>>)]
Filled(r) == [filled |-> TRUE, value |-> r]

\* what `await this.recognizeImage(imageData)` can give: a decoded result,
\* the not-found result or the timed-out result; it never rejects
RecognizeImageResults ==
    {DecodedResult(PayloadA), NotFoundResult, SingleCatch(TRUE)}

Min(a, b) == IF a < b THEN a ELSE b

\* the loop without slice: every remaining image in one group
Batch_Unsliced(from, n) == (from + 1)..n

\* imageDataList.slice(i, i + BATCH_SIZE), as the set of its 1-based
\* global indices
Batch(from, n) == (from + 1)..Min(from + BATCH_SIZE, n)

\* the test before `break` never true
OverBudget_Never(elapsed, n) == FALSE

\* Date.now() - startTime > imageDataList.length * 2000
OverBudget(elapsed, n) == elapsed > n * PerImageBudgetMs

\* results.filter(r => r !== undefined), which also skips the holes
RECURSIVE FilterDefined(_)
FilterDefined(slots) ==
    IF slots = <<>> THEN <<>>
    ELSE (IF Head(slots).filled THEN <<Head(slots).value>> ELSE <<>>)
         \o FilterDefined(Tail(slots))

NoBatchReturn == [kind |-> "none", results |-> <<>>]

\* entry of recognizeImages
CallBatch ==
    /\ pc = "idle"
    /\ \E n \in 0..MaxImages :
        /\ imageCount' = n
        /\ batchResults' = [k \in 1..n |-> Hole]
        /\ pc' = IF n > 0 THEN "group" ELSE "return"
    /\ now' = 0
    /\ startTime' = 0
    /\ batchStart' = 0
    /\ inFlight' = {}
    /\ started' = <<>>
    /\ checkElapsed' = <<>>
    /\ progress' = <<>>
    /\ ret' = NoBatchReturn
    /\ UNCHANGED <<isInitialized, img, callNo, idx, timer, hits, ingest,
                   multiLocals, fastVars, clsVars, viewVars>>

\* the indices of a set in increasing order
RECURSIVE Ascending(_)
Ascending(S) ==
    IF S = {} THEN <<>>
    ELSE LET k == CHOOSE x \in S : \A y \in S : x <= y
         IN  <<k>> \o Ascending(S \ {k})

\* batch.map: the callback of every image of the group runs up to its
\* `await this.recognizeImage(imageData)`
StartGroup ==
    /\ pc = "group"
    /\ inFlight' = inFlight \cup Batch(batchStart, imageCount)
    /\ started' = started \o Ascending(Batch(batchStart, imageCount))
    /\ pc' = "await"
    /\ UNCHANGED <<now, isInitialized, img, callNo, startTime, idx, timer,
                   ret, hits, ingest, multiLocals, fastVars, clsVars, viewVars,
                   imageCount, batchStart, batchResults, checkElapsed,
                   progress>>

\* onProgress(globalIndex + 1, imageDataList.length) for the image with
\* 1-based index k; `finished` is a history field: the results stored when
\* the call is made
OnProgress(k, slots) ==
    [completed |-> k, total |-> Len(slots),
     finished |-> Cardinality({j \in 1..Len(slots) : slots[j].filled})]

\* the recognizeImage of one image of the group settles and its callback
\* stores the result; when it is the last one, Promise.all resolves
SettleImage ==
    /\ pc = "await"
    /\ \E k \in inFlight, r \in RecognizeImageResults, d \in SettleMs :
        /\ batchResults' = [batchResults EXCEPT ![k] = Filled(r)]
        /\ progress' = Append(progress, OnProgress(k, batchResults'))
        /\ inFlight' = inFlight \ {k}
        /\ now' = now + d
    /\ pc' = IF inFlight' = {} THEN "check" ELSE "await"
    /\ UNCHANGED <<isInitialized, img, callNo, startTime, idx, timer, ret,
                   hits, ingest, multiLocals, fastVars, clsVars, viewVars,
                   imageCount,
                   batchStart, started, checkElapsed>>

\* after `await Promise.all(batchPromises)`: the test of the elapsed time,
\* then `i += BATCH_SIZE` and the loop condition
CheckBudget ==
    /\ pc = "check"
    /\ checkElapsed' = Append(checkElapsed, now - startTime)
    /\ IF OverBudget(now - startTime, imageCount)
       THEN /\ pc' = "return"
            /\ batchStart' = batchStart
       ELSE /\ batchStart' = batchStart + BATCH_SIZE
            /\ pc' = IF batchStart' < imageCount THEN "group" ELSE "return"
    /\ UNCHANGED <<now, isInitialized, img, callNo, startTime, idx, timer,
                   ret, hits, ingest, multiLocals, fastVars, clsVars, viewVars,
                   imageCount, inFlight, batchResults, started, progress>>

\* return results.filter(r => r !== undefined)
ReturnBatch ==
    /\ pc = "return"
    /\ pc' = "done"
    /\ ret' = [kind |-> "value", results |-> FilterDefined(batchResults)]
    /\ UNCHANGED <<now, isInitialized, img, callNo, startTime, idx, timer,
                   hits, ingest, multiLocals, fastVars, clsVars, viewVars,
                   batchVars>>

BatchNext ==
    \/ CallBatch
    \/ StartGroup
    \/ SettleImage
    \/ CheckBudget
    \/ ReturnBatch

\* the initial state for the operations that never look at the scenario
\* image: recognizeImages, whose recognizeImage calls are represented by
\* their results, and the batch page
InitNoImage ==
    /\ Init
    /\ img = [src |-> "canvas", codes |-> {}, decodeMs |-> 50]

SpecBatch == InitNoImage /\ [][BatchNext]_vars

----------------------------------------------------------------------------
(* Properties of recognizeImages *)

\* C15: at no time are more than 3 recognitions in flight, those in flight
\* belong to the group started last, and while one is in flight every image
\* of the earlier groups has its result
C15_AtMostThreeInFlight ==
    /\ Cardinality(inFlight) <= 3
    /\ inFlight \subseteq (batchStart + 1)..(batchStart + 3)
    /\ (inFlight # {} \/ pc = "group") =>
          \A k \in 1..batchStart : batchResults[k].filled
    /\ (pc = "group") => inFlight = {}

\* a second group is in flight
C15_Witness ==
    /\ pc = "await"
    /\ batchStart = 3
    /\ inFlight = {4}

\* the groups that had completed when the elapsed time was first found to
\* exceed imageCount * 2000 ms; 0 if it never was
FirstOver ==
    LET over == { g \in 1..Len(checkElapsed) :
                    checkElapsed[g] > imageCount * 2000 }
    IN  IF over = {} THEN 0 ELSE CHOOSE g \in over : \A h \in over : g <= h

\* C16: when the elapsed time after a group exceeds imageCount * 2000 ms,
\* no image of a later group is ever started and no image is started
\* twice, and the call returns exactly the results of the images of the
\* groups run, in input order
C16_AbandonedBatch ==
    (FirstOver > 0) =>
        LET processed == Min(3 * FirstOver, imageCount) IN
        /\ started = [k \in 1..processed |-> k]
        /\ pc \in {"return", "done"}
        /\ (pc = "done") =>
              /\ ret.kind = "value"
              /\ ret.results = [k \in 1..processed |-> batchResults[k].value]
              /\ \A k \in (processed + 1)..imageCount :
                    ~batchResults[k].filled

\* a batch of more than 3 images abandoned after its first group
C16_Witness ==
    /\ pc = "done"
    /\ FirstOver = 1
    /\ imageCount > 3
    /\ Len(ret.results) = 3

----------------------------------------------------------------------------
(* Home.handleCameraCapture and BatchRecognition.processImage *)

\* the fixed texts of the toasts of Home, written like the other fixed
\* texts: 'recognised: ' before a description, 'found N codes', and 'could
\* not recognise a code'
ToastSuccess == <<"[recognised] ">>
ToastFoundSeveral == <<"[recognised several]">>
ToastNotRecognised == <<"[could not recognise a code]">>
NoToast == <<>>

\* what recognizeMultipleQRCodes returned to the page: no code, one, two
MultiResults ==
    { <<>>,
      <<DecodedResult(PayloadA)>>,
      <<DecodedResult(PayloadA), DecodedResult(PayloadB)>> }

NotSurfaced == [status |-> "pending", qrType |-> "none",
                qrDescription |-> <<>>, toast |-> NoToast]

\* the branch of both pages for a non-empty result list: the stored record
\* takes type and description of the first result
SurfaceMulti(res, withToast) ==
    [status |-> "success", qrType |-> res[1].qrType,
     qrDescription |-> res[1].qrDescription,
     toast |-> IF ~withToast THEN NoToast
               ELSE IF Len(res) = 1
                    THEN ToastSuccess \o res[1].qrDescription
                    ELSE ToastFoundSeveral]

\* the fallback branch of both pages: type and description of the stored
\* record come from validateQRData(result.serialNumber), the toast of Home
\* from result.serialNumber alone
SurfaceSingle(r, withToast) ==
    LET validation == validateQRData(r.serialNumber) IN
    [status |-> IF r.serialNumber # <<>> THEN "success" ELSE "failed",
     qrType |-> validation.type,
     qrDescription |-> validation.description,
     toast |-> IF ~withToast THEN NoToast
               ELSE IF r.serialNumber # <<>>
                    THEN ToastSuccess \o validation.description
                    ELSE ToastNotRecognised]

NoFallback == [called |-> FALSE, result |-> EmptyResult(<<>>)]

\* what the page shows for one image: the recognizers return values and do
\* not throw, so the catch blocks of the pages are not entered
Surface(onPage, withToast) ==
    /\ page = "none"
    /\ page' = onPage
    /\ \E res \in MultiResults :
        IF Len(res) > 0
        THEN /\ fallback' = NoFallback
             /\ surfaced' = SurfaceMulti(res, withToast)
        ELSE \E r \in RecognizeImageResults :
             /\ fallback' = [called |-> TRUE, result |-> r]
             /\ surfaced' = SurfaceSingle(r, withToast)
    /\ UNCHANGED <<mvars, fastVars, clsVars, batchVars, uiVars>>

handleCameraCapture == Surface("Home", TRUE)

processImage == Surface("BatchRecognition", FALSE)

PagesNext ==
    \/ handleCameraCapture
    \/ processImage

SpecPages == Init /\ [][PagesNext]_vars

----------------------------------------------------------------------------
(* Properties of the pages *)

\* C17: when the recognizeImage the page fell back to timed out, what the
\* page shows (stored description and toast) differs from what it shows
\* for 'no code found' (the pages drop result.qrDescription, so both are
\* shown alike)
C17_TimedOutIsDistinct ==
    (fallback.called /\ fallback.result.qrDescription = TextTimedOut) =>
        /\ surfaced.qrDescription
              # SurfaceSingle(NotFoundResult, page = "Home").qrDescription
        /\ (page = "Home") =>
              surfaced.toast # SurfaceSingle(NotFoundResult, TRUE).toast

----------------------------------------------------------------------------
(* Further properties of the recognizers *)

\* C18: the grid pass starts only from the merge of the full-frame pass and
\* only if less than 1000 ms have elapsed since the request start; the
\* sliding-window pass starts only after the full-frame pass, or the grid
\* pass if that ran, and only if less than 1500 ms have elapsed; the
\* full-frame pass runs all its strategies in every call, and the call ends
\* its stages only from a merge
C18_StageOrder ==
    [][ /\ (pc' = "grid" /\ pc # "grid") =>
              (pc = "fullFrameMerge" /\ now - startTime < 1000)
        /\ (pc' = "slide" /\ pc \notin {"slide", "slideAwait"}) =>
              /\ pc \in {"fullFrameMerge", "gridMerge"}
              /\ now - startTime < 1500
        /\ (pc = "fullFrameMerge" /\ pc' \notin {"grid", "fullFrameMerge"})
              => now - startTime >= 1000
        /\ (pc \in {"fullFrameMerge", "gridMerge"} /\ pc' = "return")
              => now - startTime >= 1500
        /\ (pc' = "fullFrameMerge" /\ pc # "fullFrameMerge") =>
              (pc = "fullFrame" /\ idx = 2)
        /\ (pc = "fullFrame") => pc' \in {"fullFrame", "fullFrameMerge"}
        /\ (pc' = "return" /\ pc # "return") =>
              pc \in {"fullFrameMerge", "gridMerge", "slideMerge"}
      ]_vars

\* the grid pass was refused at 1200 ms and the sliding-window pass starts
C18_Witness ==
    /\ pc = "slide"
    /\ idx = 0
    /\ now - startTime = 1200
    /\ scanPromises.n = 0

\* C19: once the timer of the call is due, no further decode is started:
\* no strategy, region or window is decoded from then on (the code has no
\* such checkpoint and goes on decoding)
C19_NoDecodeAfterDeadline ==
    [][ (deadlineHit /\ pc \in {"fullFrame", "grid", "slide"})
            => now' = now ]_vars

\* in the complete recognition
InFull == pc \in {"fullQr", "fullLoad", "strategies"}

----------------------------------------------------------------------------
(* Properties of tryMultipleRecognitionStrategies *)

\* the order the strategies are to be tried in: transform and argument
StatedOrder ==
    <<<<"original", 0>>, <<"enhanceContrast", 0>>, <<"adjustBrightness", 30>>,
      <<"adjustBrightness", -30>>, <<"sharpenImage", 0>>,
      <<"scaleImage", 50>>, <<"scaleImage", 75>>, <<"scaleImage", 125>>,
      <<"scaleImage", 150>>, <<"scaleImage", 200>>>>

\* C21: the exhaustive path tries its strategies in the fixed order
\* original, contrast-enhanced, brightened (+30), darkened (-30),
\* sharpened, then rescaled at 0.5, 0.75, 1.25, 1.5, 2.0, each with both
\* polarities; no strategy is attempted after one that decoded, and the
\* payload returned from this path is the one that strategy decoded
C21_FixedOrderFirstSuccess ==
    /\ Len(tried) <= Len(StatedOrder)
    /\ \A i \in 1..Len(tried) :
        /\ <<tried[i].strategy.transform, tried[i].strategy.arg>>
               = StatedOrder[i]
        /\ tried[i].strategy.inversionAttempts = "attemptBoth"
        /\ i < Len(tried) => tried[i].kind \in {"null", "skip"}
    /\ (pc = "done" /\ ret.via = "full" /\ tried # <<>>) =>
        /\ tried[Len(tried)].kind = "code"
        /\ ret.result.serialNumber = tried[Len(tried)].data

\* the call returned the payload decoded by the 0.75 scale, after the 0.5
\* scale had been passed over
C21_Witness ==
    /\ pc = "done"
    /\ ret.via = "full"
    /\ Len(tried) = 7
    /\ tried[6].kind = "skip"
    /\ tried[7].kind = "code"
    /\ ret.result.serialNumber = PayloadA

\* C22: a failure of one strategy (the decode primitive or a transform
\* throwing) counts as "this attempt found nothing" for that attempt only:
\* in the exhaustive path the strategies after the one that threw are
\* still attempted before the call returns
C22_FailureIsLocal ==
    pc = "done" =>
        \A i \in 1..Len(tried) :
            (tried[i].kind = "throw" /\ i < StrategyCount)
                => Len(tried) > i

----------------------------------------------------------------------------
(* Properties of the returned confidence *)

\* C23: in every entry returned by recognizeMultipleQRCodes confidence is
\* 0 or 1.0, and it is 1.0 exactly when the payload is not empty, whatever
\* text the decode primitive returned
C23_ConfidenceIffPayload ==
    Returned =>
        \A i \in 1..Len(ret.results) :
            /\ ret.results[i].confidence \in {0, 1}
            /\ ret.results[i].confidence = 1
                   <=> ret.results[i].serialNumber # <<>>

----------------------------------------------------------------------------
(* Properties of addUniqueResults *)

\* an accepted entry has the payload of candidate r, or its rounded origin
SamePayloadOrOrigin(res, r) ==
    \E j \in 1..Len(res) :
        \/ res[j].serialNumber = r.serialNumber
        \/ PositionKey(res[j].x, res[j].y) = PositionKey(r.x, r.y)

\* every candidate of newResults that addUniqueResults does not push has
\* the payload or the rounded origin of an entry accepted before it
RECURSIVE DiscardsAsStated(_, _, _)
DiscardsAsStated(res, newResults, fp) ==
    IF newResults = <<>> THEN TRUE
    ELSE LET r == Head(newResults)
         IN  IF IsUnique(res, fp, r)
             THEN DiscardsAsStated(Push(res, r), Tail(newResults),
                      fp \cup {PositionKey(r.x, r.y), r.serialNumber})
             ELSE /\ SamePayloadOrOrigin(res, r)
                  /\ DiscardsAsStated(res, Tail(newResults), fp)

\* C24: addUniqueResults discards a candidate only when an accepted entry
\* has its payload or its rounded (x, y) origin; a candidate that differs
\* from every accepted entry in both is accepted, whatever its payload
C24_DiscardOnlyAsStated ==
    pc \in {"fullFrameMerge", "gridMerge", "slideMerge"} =>
        DiscardsAsStated(results, stageResults, foundPositions)

----------------------------------------------------------------------------
(* Termination of recognizeMultipleQRCodes *)

\* the steps of the call that do not depend on the image source: running
\* code goes on, a timer that is due fires once the event loop is idle,
\* and time passes
MultiProgress ==
    \/ FullFrameDecode
    \/ FullFrameMerge
    \/ GridDecode
    \/ GridMerge
    \/ SlideWindow
    \/ SlideAwait
    \/ SlideMerge
    \/ Return
    \/ TimerFire
    \/ Idle

\* the call under a scheduler that runs every enabled step of the service
\* but promises nothing about the image source: its load and error events
\* may never fire
SpecMultiFair == SpecMulti /\ WF_vars(MultiProgress)

\* C25: recognizeMultipleQRCodes eventually returns even when the image
\* source never finishes loading
C25_EventuallyReturns == (pc = "load") ~> (pc = "done")

----------------------------------------------------------------------------
(* Agreement of the two classifiers *)

\* the type a type name stands for: detectQRType writes 'unknown' where
\* validateQRData writes 'UNKNOWN'
Semantic(type) == IF type = "unknown" THEN "UNKNOWN" ELSE type

\* C26: for every input string the type assigned by detectQRType is the
\* same semantic type as the one assigned by validateQRData, the empty
\* input included
C26_ClassifiersAgree ==
    /\ out.by = "detectQRType" =>
          Semantic(out.result.type) = Semantic(validateQRData(input).type)
    /\ out.by = "validateQRData" =>
          Semantic(out.result.type) = Semantic(detectQRType(input))

\* detectQRType ran on the empty input, which validateQRData calls UNKNOWN
C26_Witness ==
    /\ out.by = "detectQRType"
    /\ input = <<>>
    /\ out.result.type = "unknown"
    /\ validateQRData(input).type = "UNKNOWN"

----------------------------------------------------------------------------
(* The batch page (src/src/pages/BatchRecognition.tsx)                     *)
(*                                                                         *)
(* The page is a React function component: a handler is a closure of the   *)
(* render that created it, so inside a running handler isPaused,           *)
(* currentIndex, results and processingStats keep the values of that       *)
(* render, while setResults(prev => ...) reads the latest state.  Files    *)
(* and loop indices count from 0 as in the code; pageResults[k + 1] is     *)
(* results[k].                                                             *)

\* most files in the selection, batch loops started and retries clicked
MaxFiles == 2
MaxLoops == 2
MaxRetries == 1

\* result.status of a processed image; processImage always resolves
Statuses == {"success", "failed"}

\* a RecognitionResult: its id `${Date.now()}-${index}`, the file it names
\* and its status; `by` is a history field: what created the entry
Entry(t, index, file, status, by) ==
    [id |-> <<t, index>>, originalFileName |-> file, status |-> status,
     by |-> by]

\* an array element that was never assigned
Undefined ==
    [id |-> <<-1, -1>>, originalFileName |-> -1, status |-> "undefined",
     by |-> "none"]

NoUndefined(prev) == \A k \in 1..Len(prev) : prev[k] # Undefined

\* const newResults = [...prev]; newResults[i] = r
SetAt(prev, i, r) ==
    [k \in 1..(IF Len(prev) > i THEN Len(prev) ELSE i + 1) |->
        IF k = i + 1 THEN r
        ELSE IF k <= Len(prev) THEN prev[k] ELSE Undefined]

\* results.findIndex(r => r.id === id)
FindIndex(prev, id) ==
    LET at == { k \in 1..Len(prev) : prev[k].id = id }
    IN  IF at = {} THEN -1
        ELSE (CHOOSE k \in at : \A j \in at : k <= j) - 1

\* the file of results[i], or -1 when the array has no such element
FileAt(prev, i) ==
    IF i < Len(prev) THEN prev[i + 1].originalFileName ELSE -1

\* stats.completed++ and the count of the status
Counted(stats, status) ==
    [total |-> stats.total,
     completed |-> stats.completed + 1,
     success |-> stats.success + (IF status = "success" THEN 1 ELSE 0),
     failed |-> stats.failed + (IF status = "failed" THEN 1 ELSE 0)]

NoRetry == [active |-> FALSE, fileIndex |-> 0, entryFile |-> 0,
            entryId |-> <<0, 0>>]

\* handleFilesSelect, for the one selection of the session
handleFilesSelect ==
    /\ selectedFiles = 0
    /\ \E n \in 1..MaxFiles : selectedFiles' = n
    /\ pageResults' = <<>>
    /\ currentIndex' = 0
    /\ processingStats' = [total |-> 0, completed |-> 0, success |-> 0,
                           failed |-> 0]
    /\ UNCHANGED <<mvars, fastVars, clsVars, batchVars, pageVars,
                   isProcessing, isPaused, loops, retry, storeResults,
                   begun, written, idClock>>

\* the `for` loop of a handler entered at index `from` with the local
\* stats: the handler's isPaused is the state of the render it comes from.
\* If the first test lets it, the loop calls processImage and waits;
\* otherwise the statements after the loop run
EnterLoop(from, stats) ==
    IF from < selectedFiles /\ ~isPaused
    THEN /\ loops' = Append(loops, [i |-> from, stats |-> stats,
                                    isPaused |-> isPaused,
                                    running |-> TRUE])
         /\ begun' = Append(begun, [file |-> from, by |-> "loop"])
         /\ currentIndex' = from
         /\ isProcessing' = TRUE
    ELSE /\ loops' = loops
         /\ begun' = begun
         /\ currentIndex' = selectedFiles
         /\ isProcessing' = FALSE

\* startBatchProcessing, offered while !isProcessing && !isPaused, up to
\* its first `await processImage`
startBatchProcessing ==
    /\ selectedFiles > 0
    /\ ~isProcessing /\ ~isPaused
    /\ Len(loops) < MaxLoops
    /\ isPaused' = FALSE
    /\ LET stats == [total |-> selectedFiles, completed |-> 0,
                     success |-> 0, failed |-> 0]
       IN  /\ processingStats' = stats
           /\ EnterLoop(0, stats)
    /\ pageResults' = [k \in 1..selectedFiles |->
                          Entry(idClock, k - 1, k - 1, "pending", "initial")]
    /\ idClock' = idClock + 1
    /\ UNCHANGED <<mvars, fastVars, clsVars, batchVars, pageVars,
                   selectedFiles, retry, storeResults, written>>

\* pauseProcessing, offered while isProcessing
pauseProcessing ==
    /\ isProcessing
    /\ isPaused' = TRUE
    /\ isProcessing' = FALSE
    /\ UNCHANGED <<mvars, fastVars, clsVars, batchVars, pageVars,
                   selectedFiles, pageResults, currentIndex,
                   processingStats, loops, retry, storeResults, begun,
                   written, idClock>>

\* resumeProcessing, offered while isPaused && currentIndex <
\* selectedFiles.length
resumeProcessing ==
    /\ isPaused
    /\ currentIndex < selectedFiles
    /\ isPaused' = FALSE
    /\ EnterLoop(currentIndex, processingStats)
    /\ UNCHANGED <<mvars, fastVars, clsVars, batchVars, pageVars,
                   selectedFiles, pageResults, processingStats, retry,
                   storeResults, written, idClock>>

\* processImage of a running loop resolves: the result is stored at
\* results[i], counted and added to the history; after the delay the loop
\* tests i < selectedFiles.length and its own isPaused and either calls
\* processImage for the next file or leaves the loop
LoopStep(l) ==
    /\ loops[l].running
    /\ \E status \in Statuses :
        LET lp == loops[l]
            r == Entry(idClock, lp.i, lp.i, status, "loop")
            stats == Counted(lp.stats, status)
            next == lp.i + 1
        IN  /\ pageResults' = SetAt(pageResults, lp.i, r)
            /\ written' = [by |-> "loop", file |-> lp.i,
                           over |-> FileAt(pageResults, lp.i)]
            /\ processingStats' = stats
            /\ storeResults' = <<r>> \o storeResults
            /\ IF next < selectedFiles /\ ~lp.isPaused
               THEN /\ loops' = [loops EXCEPT ![l].i = next,
                                              ![l].stats = stats]
                    /\ begun' = Append(begun, [file |-> next, by |-> "loop"])
                    /\ currentIndex' = next
                    /\ isProcessing' = isProcessing
               ELSE /\ loops' = [loops EXCEPT ![l].running = FALSE,
                                              ![l].stats = stats]
                    /\ begun' = begun
                    /\ currentIndex' = selectedFiles
                    /\ isProcessing' = FALSE
    /\ idClock' = idClock + 1
    /\ UNCHANGED <<mvars, fastVars, clsVars, batchVars, pageVars,
                   selectedFiles, isPaused, retry>>

\* removeResult(id) on an entry of the list
removeResult(k) ==
    /\ NoUndefined(pageResults)
    /\ pageResults' = SelectSeq(pageResults,
                                LAMBDA r : r.id # pageResults[k].id)
    /\ UNCHANGED <<mvars, fastVars, clsVars, batchVars, pageVars,
                   selectedFiles, isProcessing, isPaused, currentIndex,
                   processingStats, loops, retry, storeResults, begun,
                   written, idClock>>

\* retryResult(result) on a failed entry of the list, up to its `await
\* processImage`
retryResult(k) ==
    /\ NoUndefined(pageResults)
    /\ pageResults[k].status = "failed"
    /\ ~retry.active
    /\ Cardinality({j \in 1..Len(begun) : begun[j].by = "retry"})
           < MaxRetries
    /\ LET fileIndex == FindIndex(pageResults, pageResults[k].id)
       IN  /\ fileIndex # -1 /\ fileIndex < selectedFiles
           /\ retry' = [active |-> TRUE, fileIndex |-> fileIndex,
                        entryFile |-> pageResults[k].originalFileName,
                        entryId |-> pageResults[k].id]
           /\ begun' = Append(begun, [file |-> fileIndex, by |-> "retry"])
    /\ UNCHANGED <<mvars, fastVars, clsVars, batchVars, pageVars,
                   selectedFiles, pageResults, isProcessing, isPaused,
                   currentIndex, processingStats, loops, storeResults,
                   written, idClock>>

\* processImage of retryResult resolves: the new result is stored at
\* results[fileIndex] and added to the history
RetryDone ==
    /\ retry.active
    /\ \E status \in Statuses :
        LET r == Entry(idClock, retry.fileIndex, retry.fileIndex, status,
                       "retry")
        IN  /\ pageResults' = SetAt(pageResults, retry.fileIndex, r)
            /\ written' = [by |-> "retry", file |-> retry.fileIndex,
                           over |-> FileAt(pageResults, retry.fileIndex)]
            /\ storeResults' = <<r>> \o storeResults
    /\ retry' = NoRetry
    /\ idClock' = idClock + 1
    /\ UNCHANGED <<mvars, fastVars, clsVars, batchVars, pageVars,
                   selectedFiles, isProcessing, isPaused, currentIndex,
                   processingStats, loops, begun>>

BatchPageNext ==
    \/ handleFilesSelect
    \/ startBatchProcessing
    \/ pauseProcessing
    \/ resumeProcessing
    \/ \E l \in 1..Len(loops) : LoopStep(l)
    \/ \E k \in 1..Len(pageResults) : removeResult(k)
    \/ \E k \in 1..Len(pageResults) : retryResult(k)
    \/ RetryDone

SpecBatchPage == InitNoImage /\ [][BatchPageNext]_vars

----------------------------------------------------------------------------
(* Properties of the batch page *)

\* the processImage calls made by batch loops
LoopBegun == SelectSeq(begun, LAMBDA b : b.by = "loop")

\* C27: once pauseProcessing has been invoked while a batch loop is
\* running, no batch loop begins processing a further image until
\* resumeProcessing is invoked
C27_NoStartWhilePaused ==
    [][(isPaused /\ isPaused') => LoopBegun' = LoopBegun]_vars

\* C28: whatever start, pause and resume actions are taken on a file
\* selection, the batch loops process each selected file at most once and
\* add it to the history at most once, and processingStats.completed never
\* exceeds processingStats.total
C28_EachFileOnce ==
    /\ \A f \in 0..(selectedFiles - 1) :
        /\ Cardinality({j \in 1..Len(LoopBegun) : LoopBegun[j].file = f})
               <= 1
        /\ Cardinality({j \in 1..Len(storeResults) :
                           /\ storeResults[j].by = "loop"
                           /\ storeResults[j].originalFileName = f}) <= 1
    /\ processingStats.completed <= processingStats.total

\* C29: retryResult(result) re-processes the file from which that result
\* was produced and replaces that result's own entry, whatever entries
\* were removed before; a result finishing in the batch loop is written to
\* the entry of its own file
C29_RetryOwnFile ==
    /\ retry.active => retry.fileIndex = retry.entryFile
    /\ written.by # "none" => written.over \in {written.file, -1}

----------------------------------------------------------------------------
(* Properties of the progress callback *)

\* C30: the completed count that recognizeImages reports to onProgress
\* never decreases from one call to the next, and equals the number of
\* images whose recognition has finished at that moment, in whatever order
\* the recognitions of a group complete
C30_ProgressCountsFinished ==
    \A j \in 1..Len(progress) :
        /\ progress[j].completed = progress[j].finished
        /\ j > 1 => progress[j].completed >= progress[j - 1].completed

====
